---------------------------- MODULE Spec2Model ----------------------------
(***************************************************************************)
(* A model of lazada_scsdk/client.py: the option merger (_merge), the      *)
(* option classifier (_select_options and its three callers), the          *)
(* signature engine and the request dispatcher (Client.request, get, post) *)
(* with its two response normalizers.                                      *)
(*                                                                         *)
(* Python values are tagged records, so that a bool, a str and an int are  *)
(* different values even when they print alike:                            *)
(*   [str |-> s]   a str          [bool |-> b]  a bool                     *)
(*   [int |-> n]   an int         [none |-> TRUE]  None                    *)
(*   [list |-> q]  a list         [ref |-> r]   a reference to a dict that *)
(*                                              lives in the heap          *)
(*   [hmac |-> m, key |-> k]      the hex digest of HMAC-SHA256(k, m)      *)
(* A dict is a function from its keys; the order of a dict's entries is    *)
(* not modelled.  The dicts the code writes in place after another name    *)
(* may hold them (the params maps) live in the heap and are reached by     *)
(* reference; every other dict of the code is built fresh and is a value.  *)
(***************************************************************************)
EXTENDS Integers, Sequences, FiniteSets, TLC

VARIABLES
    ctor,             \* the keyword options given to Client(...), as they were passed
    ctorParams,       \* the entries the constructor's params dict had when passed
    options,          \* self.options
    heap,             \* the params dicts, by reference: "ctor", "caller", "query"
    pc,               \* the step request() is about to take ("idle": no call)
    call,             \* the arguments of the running get/post, as they were passed
    kwargs,           \* request()'s **options
    request_options,  \* request()'s request_options
    parameters,       \* request()'s parameters
    concatenated,     \* the string that is signed
    url,              \* the URL that is sent
    rand_proxy,       \* get_random_proxy()'s rand_proxy
    proxy,            \* request()'s proxy
    body,             \* the data of the POST
    response,         \* what the HTTP call answered
    outcome,          \* how the invocation ended: a return value or a raised error
    steps,            \* the dispatcher steps taken by the running invocation
    sends,            \* HTTP calls issued by the running invocation
    mheap,            \* the dicts a direct call of _merge works on, by name
    mcall             \* the arguments and the result of a direct call of _merge

vars == <<ctor, ctorParams, options, heap, pc, call, kwargs, request_options,
          parameters, concatenated, url, rand_proxy, proxy, body, response,
          outcome, steps, sends, mheap, mcall>>

requestVars == <<pc, call, kwargs, request_options, parameters, concatenated,
                 url, rand_proxy, proxy, body, response, outcome, steps, sends>>

clientVars == <<ctor, ctorParams, options>>

mergeVars == <<mheap, mcall>>

-----------------------------------------------------------------------------
(* Bounds *)

\* The longest Body.Errors sequence a JSON error envelope carries.
MaxErrors == 2

-----------------------------------------------------------------------------
(* Python values *)

Str(s) == [str |-> s]

Bool(b) == [bool |-> b]

IntVal(n) == [int |-> n]

None == [none |-> TRUE]

List(q) == [list |-> q]

Ref(r) == [ref |-> r]

IsBool(v) == DOMAIN v = {"bool"}

IsNone(v) == DOMAIN v = {"none"}

EmptyMap == [k \in {} |-> None]

\* json.dumps of a bool
JsonDumps(v) == Str(IF v.bool THEN "true" ELSE "false")

\* str() of a value, as urlencode applies it to a value that is not a str
PyStr(v) ==
    CASE DOMAIN v = {"str"} -> v.str
      [] DOMAIN v = {"bool"} -> (IF v.bool THEN "True" ELSE "False")
      [] DOMAIN v = {"int"} -> ToString(v.int)
      [] OTHER -> "None"

-----------------------------------------------------------------------------
(* The option merger *)

\* dict.update: obj's entries written over result's
Update(result, obj) ==
    [k \in DOMAIN result \cup DOMAIN obj |->
        IF k \in DOMAIN obj THEN obj[k] ELSE result[k]]

\* The dict _merge fills: a fresh one.
MergeResultAliased(refs) == refs[1]

MergeResult(refs) == "result"

\* _merge on dicts that have identity: h is the heap, refs the arguments.
\* The result is the heap after the call; the returned dict is
\* MergeResult(refs).
RECURSIVE MergeUpdates(_, _, _)
MergeUpdates(h, target, refs) ==
    IF refs = <<>> THEN h
    ELSE MergeUpdates([h EXCEPT ![target] = Update(h[target], h[Head(refs)])],
                      target, Tail(refs))

MergeHeap(h, refs) ==
    MergeUpdates([h EXCEPT !["result"] = EmptyMap], MergeResult(refs), refs)

\* _merge on dict values: the returned dict
RECURSIVE MergeFold(_, _)
MergeFold(result, args) ==
    IF args = <<>> THEN result
    ELSE MergeFold(Update(result, Head(args)), Tail(args))

Merge(args) == MergeFold(EmptyMap, args)

-----------------------------------------------------------------------------
(* The client's constants and the option classifier *)

DEFAULTS ==
    [base_url |-> Str("https://api.sellercenter.lazada.vn/"),
     api_version |-> Str("1.0"),
     api_format |-> Str("json"),
     proxies |-> None]

CLIENT_OPTIONS == DOMAIN DEFAULTS

QUERY_OPTIONS == {"from", "to", "count", "skip"}

REQUEST_OPTIONS == {"params", "data"}

ALL_OPTIONS == CLIENT_OPTIONS \cup QUERY_OPTIONS \cup REQUEST_OPTIONS

\* Client.__init__: self.options
InitOptions(ctorOptions) == Merge(<<DEFAULTS, ctorOptions>>)

\* Client._merge_options: objects is the sequence of dicts given
MergeOptions(self_options, objects) == Merge(<<self_options>> \o objects)

\* Client._select_options
SelectOptions(self_options, opts, keys, invert) ==
    LET merged == MergeOptions(self_options, <<opts>>)
        kept == {key \in DOMAIN merged :
                    \/ invert /\ key \notin keys
                    \/ ~invert /\ key \in keys}
    IN  [key \in kept |-> merged[key]]

\* Client._parse_query_options
ParseQueryOptions(self_options, opts) ==
    SelectOptions(self_options, opts, QUERY_OPTIONS, FALSE)

\* Client._parse_parameter_options
ParseParameterOptions(self_options, opts) ==
    SelectOptions(self_options, opts, ALL_OPTIONS, TRUE)

\* The loop of Client._parse_request_options over one params dict: the
\* entries the dict holds when the loop ends.
CoerceBooleansSkipped(params) == params

CoerceBooleans(params) ==
    [key \in DOMAIN params |->
        IF IsBool(params[key]) THEN JsonDumps(params[key]) ELSE params[key]]

\* Client._parse_request_options: the dict it returns ...
ParseRequestOptions(self_options, opts) ==
    SelectOptions(self_options, opts, REQUEST_OPTIONS, FALSE)

\* ... and the heap it leaves: the params dict is written in place.
ParseRequestOptionsHeap(self_options, opts, h) ==
    LET selected == ParseRequestOptions(self_options, opts)
    IN  IF "params" \in DOMAIN selected
        THEN [h EXCEPT ![selected["params"].ref] = CoerceBooleans(@)]
        ELSE h

-----------------------------------------------------------------------------
(* The signature engine *)

\* The keys a parameter map of the model can hold, in the order sorted()
\* puts str keys: by code point, upper case before lower case.
KeyOrder ==
    <<"Action", "Format", "Signature", "Timestamp", "UserID", "Version",
      "count", "flag", "limit">>

\* sorted(parameters.items()): the keys are unique, so the order is the keys'
SortedItems(params) ==
    LET keys == SelectSeq(KeyOrder, LAMBDA k : k \in DOMAIN params)
    IN  [i \in DOMAIN keys |-> <<keys[i], params[keys[i]]>>]

\* urllib.parse.quote_plus on the strings of the model: a space becomes "+",
\* ":" and "+" are percent-encoded
QuotePlus(s) ==
    CASE s = "a b" -> "a+b"
      [] s = "2024-01-01T00:00:00+07:00" -> "2024-01-01T00%3A00%3A00%2B07%3A00"
      [] OTHER -> s

\* str.replace('+', '%20') on the strings quote_plus yields
PlusToPercent20(s) ==
    CASE s = "a+b" -> "a%20b"
      [] OTHER -> s

\* One value of a query string: urlencode turns a value that is not a str
\* into str(value) and quotes it.
UrlQuote(v) == QuotePlus(PyStr(v))

\* urllib.parse.urlencode of a sequence of (key, value) pairs, kept as the
\* sequence of its key=value pieces
UrlEncode(items) ==
    [i \in DOMAIN items |-> <<QuotePlus(items[i][1]), UrlQuote(items[i][2])>>]

\* The string that is signed
Concatenate(params) ==
    LET encoded == UrlEncode(SortedItems(params))
    IN  [i \in DOMAIN encoded |->
            <<PlusToPercent20(encoded[i][1]), PlusToPercent20(encoded[i][2])>>]

\* HMAC(key, msg, sha256).hexdigest(): one digest per key and message
HexDigest(key, msg) == [hmac |-> msg, key |-> key]

IsDigest(v) == DOMAIN v = {"hmac", "key"}

\* urlencode(parameters) for the URL: the query's value per key
UrlQuery(params) ==
    [k \in DOMAIN params |->
        IF IsDigest(params[k]) THEN params[k] ELSE Str(UrlQuote(params[k]))]

-----------------------------------------------------------------------------
(* Wire texts, the two parsers and the response normalizers *)

\* A text on the wire: a JSON text, an XML text, or neither.  ws says that
\* the text carries formatting a parser drops (blanks between JSON tokens,
\* <a></a> where a serializer writes <a />).  envelope: the JSON object has
\* key ErrorResponse, or the XML root's tag is ErrorResponse.  head: the
\* envelope holds Head with ErrorCode and ErrorMessage.  hasBody: it holds
\* Body, with the entries errors (JSON: Body.Errors).
Text(fmt, ws, envelope, head, hasBody, errors) ==
    [fmt |-> fmt, ws |-> ws, envelope |-> envelope, head |-> head,
     hasBody |-> hasBody, errors |-> errors]

\* What a parser yields: the parsed document, without the text's formatting
Doc(text) ==
    [envelope |-> text.envelope, head |-> text.head,
     hasBody |-> text.hasBody, errors |-> text.errors]

\* response.json(): raises on a text that is not JSON
JsonLoads(text) ==
    IF text.fmt = "json"
    THEN [ok |-> TRUE, doc |-> Doc(text)]
    ELSE [ok |-> FALSE, doc |-> None]

\* ET.fromstring: raises on a text that is not well-formed XML
EtFromString(text) ==
    IF text.fmt = "xml"
    THEN [ok |-> TRUE, doc |-> Doc(text)]
    ELSE [ok |-> FALSE, doc |-> None]

\* ET.tostring: the serializer's own formatting
EtToString(tree) ==
    Text("xml", FALSE, tree.envelope, tree.head, tree.hasBody, tree.errors)

\* The fields every error envelope of the model carries in its Head
ErrorCode == Str("10")

ErrorMessage == Str("Invalid signature")

Return(value) == [kind |-> "return", value |-> value]

Raise(kind, value) == [kind |-> kind, value |-> value]

NoOutcome == [kind |-> "none", value |-> None]

Raised(o) == o.kind \notin {"none", "return"}

\* The loop of Client._check_json_response: message += "\n" + str(Errors),
\* once per entry of Errors.  A message is the sequence of its pieces.
RECURSIVE AppendPerError(_, _, _)
AppendPerError(message, remaining, errors) ==
    IF remaining = <<>> THEN message
    ELSE AppendPerError(message \o <<Str("\n"), List(errors)>>,
                        Tail(remaining), errors)

\* Client._check_json_response
CheckJsonResponseNeverRaises(json_dict) == Return(json_dict)

CheckJsonResponse(json_dict) ==
    IF json_dict.envelope
    THEN IF ~json_dict.head
         THEN Raise("KeyError", Str("Head"))
         ELSE LET message ==
                      IF json_dict.hasBody
                      THEN AppendPerError(<<ErrorMessage>>, json_dict.errors,
                                          json_dict.errors)
                      ELSE <<ErrorMessage>>
              IN  Raise("BaseError", [code |-> ErrorCode, message |-> message])
    ELSE Return(json_dict)

\* Client._check_xml_response
CheckXmlResponse(xmlstring) ==
    LET parsed == EtFromString(xmlstring)
        root == parsed.doc
    IN  IF ~parsed.ok THEN Raise("ParseError", None)
        ELSE IF root.envelope
        THEN IF ~root.head
             THEN Raise("AttributeError", Str("find"))
             ELSE LET message ==
                          IF root.hasBody
                          THEN <<ErrorMessage, Str("\n"), [xml |-> root.errors]>>
                          ELSE <<ErrorMessage>>
                  IN  Raise("BaseError", [code |-> ErrorCode, message |-> message])
        ELSE Return(xmlstring)

\* Client._prepare_xml
PrepareXml(xmlstring) ==
    LET parsed == EtFromString(xmlstring)
    IN  IF parsed.ok THEN Return(EtToString(parsed.doc))
        ELSE Raise("ParseError", None)

\* requests' Response.ok: raise_for_status() raises for 400 <= status < 600
Ok(status) == ~(400 <= status /\ status < 600)

-----------------------------------------------------------------------------
(* The request dispatcher: the pieces of Client.request *)

email == "u1"

api_key == "s3cr3t"

\* datetime.now(gmt7).replace(microsecond=0).isoformat(), at the one instant
\* of the model
Timestamp == Str("2024-01-01T00:00:00+07:00")

\* The configuration request() reads: every read of a configuration key in
\* it is of self.options; the merged options of its first line are read for
\* params and data only.
RequestConfig(self_options, merged) == self_options

\* The parameters before signing
BuildParameters(config, action, ro, h) ==
    LET base == [UserID |-> Str(email),
                 Version |-> config["api_version"],
                 Action |-> Str(action),
                 Format |-> config["api_format"],
                 Timestamp |-> Timestamp]
    IN  IF "params" \in DOMAIN ro
        THEN Merge(<<base, h[ro["params"].ref]>>)
        ELSE base

\* parameters['Signature'] = ...
WithSignature(params, digest) ==
    [k \in DOMAIN params \cup {"Signature"} |->
        IF k = "Signature" THEN digest ELSE params[k]]

\* The URL: the base and the query
Url(config, params) == [base |-> config["base_url"], query |-> UrlQuery(params)]

Truthy(p) == p # ""

\* get_random_proxy(): `while not rand_proxy` is left when the entry chosen
\* is truthy
LoopEndsAtOnce(p) == TRUE

LoopEnds(p) == Truthy(p)

\* proxy.split("://")[0] on the proxies of the model
Protocol(p) ==
    CASE p = "http://p1" -> "http"
      [] p = "https://p2" -> "https"
      [] OTHER -> p

\* {protocol: proxy}
ProxyDict(p) == [k \in {Protocol(p)} |-> Str(p)]

\* The order of request()'s steps: the step that follows `step` when it
\* ends without raising.
StepAfterTransportFirst(step, config) ==
    CASE step = "BUILD_PARAMS" -> "SIGN"
      [] step = "SIGN" -> "SELECT_TRANSPORT"
      [] step = "SELECT_TRANSPORT" ->
            (IF ~IsNone(config["proxies"]) THEN "PICK_PROXY" ELSE "SEND")
      [] step = "PICK_PROXY" -> "SEND"
      [] step = "SEND" -> "NORMALIZE"

StepAfter(step, config) ==
    CASE step = "BUILD_PARAMS" -> "SIGN"
      [] step = "SIGN" ->
            (IF ~IsNone(config["proxies"]) THEN "PICK_PROXY" ELSE "SELECT_TRANSPORT")
      [] step = "PICK_PROXY" -> "SELECT_TRANSPORT"
      [] step = "SELECT_TRANSPORT" -> "SEND"
      [] step = "SEND" -> "NORMALIZE"

\* What request() does with the response: it is normalized when ok, and
\* raise_for_status() raises otherwise.
AfterSendIgnoringStatus(resp, config) == StepAfter("SEND", config)

AfterSend(resp, config) ==
    IF Ok(resp.status) THEN StepAfter("SEND", config) ELSE "RAISE"

\* The normalizer per configured format
NormalizeResponse(config, text) ==
    IF config["api_format"] = Str("json")
    THEN LET parsed == JsonLoads(text)
         IN  IF parsed.ok THEN CheckJsonResponse(parsed.doc)
             ELSE Raise("ValueError", None)
    ELSE CheckXmlResponse(text)

-----------------------------------------------------------------------------
(* The inputs *)

\* Proxy pools a client is constructed with; "" is a falsy entry
Pools == {<<>>, <<"">>, <<"", "http://p1">>, <<"http://p1">>}

\* The params dict a client may be constructed with
CtorParamsDict == [flag |-> Bool(TRUE)]

\* The keyword options of Client(...)
CtorOptions ==
    {Merge(<<f, p, q>>) :
        f \in {EmptyMap, [api_format |-> Str("xml")], [api_version |-> Str("2.0")]},
        p \in {EmptyMap} \cup {[proxies |-> List(pool)] : pool \in Pools},
        q \in {EmptyMap, [params |-> Ref("ctor")]}}

\* Configuration keys given to one call
ConfigOverrides ==
    {EmptyMap,
     [api_format |-> Str("xml")],
     [api_version |-> Str("3.0")],
     [base_url |-> Str("https://staging.test/")],
     [proxies |-> List(<<"https://p2">>)]}

\* Parameters given to one call: keyword options of get, a params dict of post
ParamChoices ==
    {EmptyMap,
     [flag |-> Bool(TRUE), limit |-> IntVal(1)],
     [flag |-> Bool(FALSE), count |-> Str("a b")],
     [Signature |-> Str("forged")]}

\* The data of a post: a well-formed XML text, a text that is not XML
DataChoices ==
    {Text("xml", TRUE, FALSE, FALSE, FALSE, <<>>),
     Text("garbage", FALSE, FALSE, FALSE, FALSE, <<>>)}

ErrorLists == {[i \in 1..n |-> i] : n \in 0..MaxErrors}

\* The texts a response carries
Payloads ==
    {Text("garbage", FALSE, FALSE, FALSE, FALSE, <<>>)}
    \cup {Text(fmt, ws, FALSE, FALSE, FALSE, <<>>) :
            fmt \in {"json", "xml"}, ws \in BOOLEAN}
    \cup {Text(fmt, FALSE, TRUE, head, FALSE, <<>>) :
            fmt \in {"json", "xml"}, head \in BOOLEAN}
    \cup {Text(fmt, FALSE, TRUE, TRUE, TRUE, errs) :
            fmt \in {"json", "xml"}, errs \in ErrorLists}

Statuses == {200, 304, 404, 500}

Responses == [status : Statuses, text : Payloads]

NoCall == [method |-> "none", action |-> "", options |-> EmptyMap,
           hasParams |-> FALSE, params |-> EmptyMap, data |-> None]

NoHeap == [r \in {"ctor", "caller", "query"} |-> EmptyMap]

-----------------------------------------------------------------------------
(* The client: construction, then get and post calls, one at a time *)

Init ==
    /\ ctor \in CtorOptions
    /\ ctorParams = (IF "params" \in DOMAIN ctor THEN CtorParamsDict ELSE EmptyMap)
    /\ options = InitOptions(ctor)
    /\ heap = [NoHeap EXCEPT !["ctor"] = ctorParams]
    /\ pc = "idle"
    /\ call = NoCall
    /\ kwargs = EmptyMap
    /\ request_options = EmptyMap
    /\ parameters = EmptyMap
    /\ concatenated = <<>>
    /\ url = None
    /\ rand_proxy = None
    /\ proxy = None
    /\ body = None
    /\ response = None
    /\ outcome = NoOutcome
    /\ steps = <<>>
    /\ sends = 0
    /\ mheap = EmptyMap
    /\ mcall = None

\* The configuration the running request reads
Config == RequestConfig(options, kwargs)

\* self.options['proxies'] as a list: get_random_proxy() is called only when
\* it is not None
PoolOf(config) == IF IsNone(config["proxies"]) THEN <<>> ELSE config["proxies"].list

\* Client.get, up to its call of request()
Get(override, extras) ==
    LET opts == Merge(<<override, extras>>)
        query_options == ParseQueryOptions(options, opts)
        parameter_options == ParseParameterOptions(options, opts)
        query == Merge(<<query_options, parameter_options>>)
    IN  /\ pc = "idle"
        /\ call' = [method |-> "get", action |-> "GetOrders", options |-> opts,
                    hasParams |-> FALSE, params |-> EmptyMap, data |-> None]
        /\ heap' = [heap EXCEPT !["query"] = query]
        /\ kwargs' = Merge(<<[params |-> Ref("query")], opts>>)
        /\ pc' = "BUILD_PARAMS"
        /\ steps' = <<"BUILD_PARAMS">>
        /\ UNCHANGED <<request_options, parameters, concatenated, url, rand_proxy,
                       proxy, body, response, outcome, sends>>
        /\ UNCHANGED <<clientVars, mergeVars>>

\* Client.post, up to its call of request(); passed is the caller's params
\* dict when hasParams
Post(override, hasParams, passed, data) ==
    LET opts == IF hasParams
                THEN Merge(<<override, [params |-> Ref("caller")]>>)
                ELSE override
    IN  /\ pc = "idle"
        /\ call' = [method |-> "post", action |-> "ProductCreate", options |-> opts,
                    hasParams |-> hasParams, params |-> passed, data |-> data]
        /\ heap' = [heap EXCEPT !["caller"] = passed]
        /\ kwargs' = Merge(<<[data |-> data], opts>>)
        /\ pc' = "BUILD_PARAMS"
        /\ steps' = <<"BUILD_PARAMS">>
        /\ UNCHANGED <<request_options, parameters, concatenated, url, rand_proxy,
                       proxy, body, response, outcome, sends>>
        /\ UNCHANGED <<clientVars, mergeVars>>

\* request(): the options are merged, the request options selected and
\* their booleans coerced, the parameters assembled
BuildParams ==
    LET merged == MergeOptions(options, <<kwargs>>)
        ro == ParseRequestOptions(options, merged)
        h == ParseRequestOptionsHeap(options, merged, heap)
        config == RequestConfig(options, merged)
    IN  /\ pc = "BUILD_PARAMS"
        /\ kwargs' = merged
        /\ request_options' = ro
        /\ heap' = h
        /\ parameters' = BuildParameters(config, call.action, ro, h)
        /\ pc' = StepAfter("BUILD_PARAMS", config)
        /\ steps' = Append(steps, StepAfter("BUILD_PARAMS", config))
        /\ UNCHANGED <<call, concatenated, url, rand_proxy, proxy, body,
                       response, outcome, sends>>
        /\ UNCHANGED <<clientVars, mergeVars>>

\* request(): the signature and the URL
Sign ==
    LET signed == Concatenate(parameters)
        final == WithSignature(parameters, HexDigest(api_key, signed))
    IN  /\ pc = "SIGN"
        /\ concatenated' = signed
        /\ parameters' = final
        /\ url' = Url(Config, final)
        /\ proxy' = None
        /\ pc' = StepAfter("SIGN", Config)
        /\ steps' = Append(steps, StepAfter("SIGN", Config))
        /\ UNCHANGED <<call, kwargs, request_options, rand_proxy, body,
                       response, outcome, sends, heap>>
        /\ UNCHANGED <<clientVars, mergeVars>>

\* get_random_proxy() on an empty pool
ProxyNone ==
    /\ pc = "PICK_PROXY"
    /\ Len(PoolOf(Config)) = 0
    /\ proxy' = None
    /\ pc' = StepAfter("PICK_PROXY", Config)
    /\ steps' = Append(steps, StepAfter("PICK_PROXY", Config))
    /\ UNCHANGED <<call, kwargs, request_options, parameters, concatenated, url,
                   rand_proxy, body, response, outcome, sends, heap>>
    /\ UNCHANGED <<clientVars, mergeVars>>

\* get_random_proxy(): one random.choice, of the pool's entry i; the loop
\* goes on while the entry chosen is falsy
ProxyChoice(i) ==
    LET pool == PoolOf(Config)
    IN  /\ pc = "PICK_PROXY"
        /\ i \in 1..Len(pool)
        /\ rand_proxy' = Str(pool[i])
        /\ IF LoopEnds(pool[i])
           THEN /\ proxy' = ProxyDict(pool[i])
                /\ pc' = StepAfter("PICK_PROXY", Config)
                /\ steps' = Append(steps, StepAfter("PICK_PROXY", Config))
           ELSE UNCHANGED <<proxy, pc, steps>>
        /\ UNCHANGED <<call, kwargs, request_options, parameters, concatenated,
                       url, body, response, outcome, sends, heap>>
        /\ UNCHANGED <<clientVars, mergeVars>>

\* random.choice yields a truthy entry
PickTruthy ==
    \E i \in DOMAIN PoolOf(Config) : Truthy(PoolOf(Config)[i]) /\ ProxyChoice(i)

\* random.choice yields a falsy entry
PickFalsy ==
    \E i \in DOMAIN PoolOf(Config) : ~Truthy(PoolOf(Config)[i]) /\ ProxyChoice(i)

\* request(): no body for get; for post the data, parsed and serialized
SelectTransport ==
    LET prepared == IF call.method = "get" THEN Return(None)
                    ELSE PrepareXml(request_options["data"])
    IN  /\ pc = "SELECT_TRANSPORT"
        /\ IF Raised(prepared)
           THEN /\ outcome' = prepared
                /\ pc' = "done"
                /\ steps' = Append(steps, "RAISE")
                /\ UNCHANGED body
           ELSE /\ body' = prepared.value
                /\ pc' = StepAfter("SELECT_TRANSPORT", Config)
                /\ steps' = Append(steps, StepAfter("SELECT_TRANSPORT", Config))
                /\ UNCHANGED outcome
        /\ UNCHANGED <<call, kwargs, request_options, parameters, concatenated,
                       url, rand_proxy, proxy, response, sends, heap>>
        /\ UNCHANGED <<clientVars, mergeVars>>

\* requests.get / requests.post answers resp
Send(resp) ==
    /\ pc = "SEND"
    /\ response' = resp
    /\ sends' = sends + 1
    /\ IF AfterSend(resp, Config) = "RAISE"
       THEN /\ outcome' = Raise("HTTPError", IntVal(resp.status))
            /\ pc' = "done"
            /\ steps' = Append(steps, "RAISE")
       ELSE /\ pc' = AfterSend(resp, Config)
            /\ steps' = Append(steps, AfterSend(resp, Config))
            /\ UNCHANGED outcome
    /\ UNCHANGED <<call, kwargs, request_options, parameters, concatenated, url,
                   rand_proxy, proxy, body, heap>>
    /\ UNCHANGED <<clientVars, mergeVars>>

\* requests.get / requests.post raises: no response
SendFails ==
    /\ pc = "SEND"
    /\ sends' = sends + 1
    /\ outcome' = Raise("ConnectionError", None)
    /\ pc' = "done"
    /\ steps' = Append(steps, "RAISE")
    /\ UNCHANGED <<call, kwargs, request_options, parameters, concatenated, url,
                   rand_proxy, proxy, body, response, heap>>
    /\ UNCHANGED <<clientVars, mergeVars>>

\* request(): the response is normalized, and returned or an error raised
Normalize ==
    LET result == NormalizeResponse(Config, response.text)
    IN  /\ pc = "NORMALIZE"
        /\ outcome' = result
        /\ pc' = "done"
        /\ steps' = Append(steps, IF Raised(result) THEN "RAISE" ELSE "RETURN")
        /\ UNCHANGED <<call, kwargs, request_options, parameters, concatenated,
                       url, rand_proxy, proxy, body, response, sends, heap>>
        /\ UNCHANGED <<clientVars, mergeVars>>

\* The caller has the result; the call's own dicts are gone
Finish ==
    /\ pc = "done"
    /\ pc' = "idle"
    /\ call' = NoCall
    /\ kwargs' = EmptyMap
    /\ request_options' = EmptyMap
    /\ parameters' = EmptyMap
    /\ concatenated' = <<>>
    /\ url' = None
    /\ rand_proxy' = None
    /\ proxy' = None
    /\ body' = None
    /\ response' = None
    /\ outcome' = NoOutcome
    /\ steps' = <<>>
    /\ sends' = 0
    /\ heap' = [heap EXCEPT !["caller"] = EmptyMap, !["query"] = EmptyMap]
    /\ UNCHANGED <<clientVars, mergeVars>>

Next ==
    \/ \E o \in ConfigOverrides, e \in ParamChoices : Get(o, e)
    \/ \E o \in ConfigOverrides, e \in ParamChoices, d \in DataChoices :
            Post(o, TRUE, e, d)
    \/ \E o \in ConfigOverrides, d \in DataChoices : Post(o, FALSE, EmptyMap, d)
    \/ BuildParams
    \/ Sign
    \/ ProxyNone
    \/ PickTruthy
    \/ PickFalsy
    \/ SelectTransport
    \/ \E resp \in Responses : Send(resp)
    \/ SendFails
    \/ Normalize
    \/ Finish

Spec == Init /\ [][Next]_vars

\* The random choice is fair: a truthy entry that can be chosen is chosen
\* in the end, and an empty pool is answered.
FairSpec == Spec /\ WF_vars(ProxyNone) /\ WF_vars(PickTruthy)

-----------------------------------------------------------------------------
(* _merge called directly, on dicts that have identity *)

MergeKeys == {"k1", "k2"}

MergeValues == {Str("x"), Str("y")}

MergeMaps == UNION {[ks -> MergeValues] : ks \in SUBSET MergeKeys}

MergeNames == {"a", "b", "c"}

MergeArgs == {<<"a">>, <<"a", "b">>, <<"a", "b", "c">>}

MergeInit ==
    /\ ctor = EmptyMap
    /\ ctorParams = EmptyMap
    /\ options = InitOptions(ctor)
    /\ heap = NoHeap
    /\ pc = "idle"
    /\ call = NoCall
    /\ kwargs = EmptyMap
    /\ request_options = EmptyMap
    /\ parameters = EmptyMap
    /\ concatenated = <<>>
    /\ url = None
    /\ rand_proxy = None
    /\ proxy = None
    /\ body = None
    /\ response = None
    /\ outcome = NoOutcome
    /\ steps = <<>>
    /\ sends = 0
    /\ \E given \in [MergeNames -> MergeMaps] :
          mheap = [r \in MergeNames \cup {"result"} |->
                      IF r = "result" THEN EmptyMap ELSE given[r]]
    /\ mcall = None

\* _merge(*refs)
MergeCall(refs) ==
    /\ mcall = None
    /\ mheap' = MergeHeap(mheap, refs)
    /\ mcall' = [args |-> refs, before |-> mheap, returned |-> MergeResult(refs)]
    /\ UNCHANGED <<clientVars, heap, requestVars>>

MergeNext == \E refs \in MergeArgs : MergeCall(refs)

MergeSpec == MergeInit /\ [][MergeNext]_vars

-----------------------------------------------------------------------------
(* Properties *)

Range(q) == {q[i] : i \in DOMAIN q}

Signed == url # None

Responded == response # None

\* The format the running request is configured with
ConfiguredFormat == Config["api_format"].str

\* The configuration as the layers resolve it: the defaults, then the
\* constructor's options, then the configuration keys given to the call
Resolved ==
    Merge(<<DEFAULTS, ctor,
            [k \in DOMAIN call.options \cap CLIENT_OPTIONS |-> call.options[k]]>>)

ProxyFrom(config) ==
    IF IsNone(config["proxies"]) THEN {None}
    ELSE IF \A i \in DOMAIN config["proxies"].list : config["proxies"].list[i] = ""
    THEN {None}
    ELSE {ProxyDict(config["proxies"].list[i]) :
            i \in {j \in DOMAIN config["proxies"].list : config["proxies"].list[j] # ""}}

\* C1: a configuration key given to a call overrides the constructor's value
\* and the default in that request: Version, Format, the base URL, the proxy
\* pool and the normalizer used all come from the resolved configuration.
C1_PerCallConfigApplies ==
    /\ Signed =>
          /\ parameters["Version"] = Resolved["api_version"]
          /\ parameters["Format"] = Resolved["api_format"]
          /\ url.base = Resolved["base_url"]
    /\ pc \in {"SELECT_TRANSPORT", "SEND", "NORMALIZE"} => proxy \in ProxyFrom(Resolved)
    /\ (pc = "done" /\ "NORMALIZE" \in Range(steps)) =>
          outcome = NormalizeResponse(Resolved, response.text)

Unsigned == [k \in DOMAIN parameters \ {"Signature"} |-> parameters[k]]

\* C2: the signed string is built from the assembled parameters sorted by
\* key and holds no Signature entry, whatever the caller passed; Signature
\* enters the parameter map only with the digest, and is in the URL's query.
C2_SignatureNotSigned ==
    /\ pc \in {"BUILD_PARAMS", "SIGN"} => "Signature" \notin DOMAIN parameters
    /\ Signed =>
          /\ concatenated = Concatenate(Unsigned)
          /\ \A i \in DOMAIN concatenated : concatenated[i][1] # "Signature"
          /\ parameters["Signature"] = HexDigest(api_key, concatenated)
          /\ "Signature" \in DOMAIN url.query
          /\ url.query["Signature"] = parameters["Signature"]

\* C3: no map that exists outside a call is written by it: the client's
\* options, a params map held in them since construction and a params map
\* the caller passed keep their entries.
C3_OuterMapsUnchanged ==
    /\ options = InitOptions(ctor)
    /\ heap["ctor"] = ctorParams
    /\ call.hasParams => heap["caller"] = call.params

\* The last argument that holds key k
RECURSIVE LastWith(_, _, _)
LastWith(k, refs, before) ==
    IF k \in DOMAIN before[refs[Len(refs)]] THEN refs[Len(refs)]
    ELSE LastWith(k, SubSeq(refs, 1, Len(refs) - 1), before)

\* C4: merge returns a new map whose keys are the union of its arguments'
\* keys, each key with the value of the last argument that holds it, and
\* leaves every argument as it was.
C4_MergeContract ==
    mcall # None =>
        LET result == mheap[mcall.returned]
            before == mcall.before
            args == mcall.args
        IN  /\ mcall.returned \notin Range(args)
            /\ DOMAIN result = UNION {DOMAIN before[r] : r \in Range(args)}
            /\ \A k \in DOMAIN result : result[k] = before[LastWith(k, args, before)][k]
            /\ \A r \in MergeNames : mheap[r] = before[r]

C4_Witness ==
    /\ mcall # None
    /\ mcall.args = <<"a", "b", "c">>
    /\ mcall.before["a"] = [k1 |-> Str("x"), k2 |-> Str("x")]
    /\ mcall.before["b"] = [k1 |-> Str("y")]
    /\ mcall.before["c"] = EmptyMap
    /\ mheap["result"] = [k1 |-> Str("y"), k2 |-> Str("x")]

HasEnvelope == response.text.fmt = ConfiguredFormat /\ response.text.envelope

\* The payload of a response in the configured format: the JSON object, or
\* the XML text itself
Payload == IF ConfiguredFormat = "json" THEN Doc(response.text) ELSE response.text

OkResponseDone == pc = "done" /\ Responded /\ Ok(response.status)

\* The response's text parses in the configured format and its error
\* envelope, if it is one, holds Head with ErrorCode and ErrorMessage
WellFormedPayload ==
    /\ response.text.fmt = ConfiguredFormat
    /\ response.text.envelope => response.text.head

\* C5, as stated: for every ok response the typed error is raised exactly
\* when the payload is an error envelope in the configured format, and the
\* payload is returned unchanged otherwise.
C5_EveryOkResponse ==
    OkResponseDone =>
        /\ outcome.kind = "BaseError" <=> HasEnvelope
        /\ ~HasEnvelope => outcome = Return(Payload)

\* C5, amended: the same, for every ok response whose text parses in the
\* configured format and whose envelope, if any, is well formed.
C5_ParseableOkResponse ==
    (OkResponseDone /\ WellFormedPayload) =>
        /\ outcome.kind = "BaseError" <=> HasEnvelope
        /\ ~HasEnvelope => outcome = Return(Payload)

C5_Witness ==
    /\ OkResponseDone
    /\ ConfiguredFormat = "json"
    /\ response.text = Text("json", FALSE, TRUE, TRUE, FALSE, <<>>)
    /\ outcome.kind = "BaseError"

\* C6: a JSON error envelope raises an error with code Head.ErrorCode and
\* message Head.ErrorMessage, followed once by the string form of
\* Body.Errors when Body is there, whatever the length of Errors.
C6_JsonErrorMessage ==
    (pc = "done" /\ outcome.kind = "BaseError" /\ ConfiguredFormat = "json") =>
        /\ outcome.value.code = ErrorCode
        /\ outcome.value.message =
              (IF response.text.hasBody
               THEN <<ErrorMessage, Str("\n"), List(response.text.errors)>>
               ELSE <<ErrorMessage>>)

\* C7, as stated: at most one HTTP call per invocation, an error ends the
\* invocation, and a response whose status is not 2xx is never normalized
\* nor returned: it is raised as a status error.
C7_Non2xxRaised ==
    /\ sends <= 1
    /\ Raised(outcome) => pc = "done"
    /\ (Responded /\ response.status \notin 200..299) =>
          /\ "NORMALIZE" \notin Range(steps)
          /\ outcome.kind # "return"
          /\ pc = "done" => outcome.kind = "HTTPError"

\* C7, amended: the same, for a response whose status is 400 or above.
C7_ErrorStatusRaised ==
    /\ sends <= 1
    /\ Raised(outcome) => pc = "done"
    /\ (Responded /\ response.status >= 400) =>
          /\ "NORMALIZE" \notin Range(steps)
          /\ outcome.kind # "return"
          /\ pc = "done" /\ outcome.kind = "HTTPError"

C7_Witness ==
    /\ pc = "done"
    /\ Responded
    /\ response.status = 404
    /\ outcome.kind = "HTTPError"
    /\ sends = 1

\* The params the caller gave: the extra keyword options of get, the params
\* map of post, as they were passed
PassedParams ==
    IF call.method = "get"
    THEN [k \in DOMAIN call.options \ (CLIENT_OPTIONS \cup REQUEST_OPTIONS) |->
            call.options[k]]
    ELSE call.params

SignedValues(k) ==
    {concatenated[i][2] : i \in {j \in DOMAIN concatenated : concatenated[j][1] = k}}

JsonText(v) == IF v.bool THEN "true" ELSE "false"

\* C8: every boolean among the params of a get or post is replaced by its
\* JSON text before the signature is computed: the parameters hold no raw
\* boolean, the signed string and the URL's query carry "true" or "false",
\* and a value that is no boolean is signed as it was passed.
C8_BooleansAsJsonText ==
    /\ \A k \in DOMAIN parameters : ~IsBool(parameters[k])
    /\ Signed =>
          \A k \in DOMAIN PassedParams :
              LET v == PassedParams[k]
              IN  IF IsBool(v)
                  THEN /\ SignedValues(k) = {JsonText(v)}
                       /\ url.query[k] = Str(JsonText(v))
                  ELSE SignedValues(k) = {PlusToPercent20(QuotePlus(PyStr(v)))}

C8_Witness ==
    /\ Signed
    /\ call.method = "get"
    /\ "flag" \in DOMAIN call.options
    /\ call.options["flag"] = Bool(TRUE)
    /\ <<"flag", "true">> \in Range(concatenated)
    /\ url.query["flag"] = Str("true")

\* The steps in the order given, as ranks
Rank(order, step) == CHOOSE i \in DOMAIN order : step \in order[i]

InOrder(order) ==
    \A i, j \in DOMAIN steps : i < j => Rank(order, steps[i]) < Rank(order, steps[j])

\* Each step taken follows the step it needs
Needs ==
    /\ steps # <<>> => steps[1] = "BUILD_PARAMS"
    /\ "SEND" \in Range(steps) => {"SIGN", "SELECT_TRANSPORT"} \subseteq Range(steps)
    /\ "NORMALIZE" \in Range(steps) => "SEND" \in Range(steps)
    /\ "RETURN" \in Range(steps) => "NORMALIZE" \in Range(steps)
    /\ pc = "done" <=> (steps # <<>> /\ steps[Len(steps)] \in {"RETURN", "RAISE"})

\* C9, as stated: the steps of an invocation come in the order BUILD_PARAMS,
\* SIGN, SELECT_TRANSPORT, PICK_PROXY, SEND, NORMALIZE, RETURN or RAISE, none
\* twice.
C9_TransportBeforeProxy ==
    /\ InOrder(<<{"BUILD_PARAMS"}, {"SIGN"}, {"SELECT_TRANSPORT"}, {"PICK_PROXY"},
                 {"SEND"}, {"NORMALIZE"}, {"RETURN", "RAISE"}>>)
    /\ Needs

\* C9, amended: the order is BUILD_PARAMS, SIGN, PICK_PROXY, SELECT_TRANSPORT,
\* SEND, NORMALIZE, RETURN or RAISE, none twice.
C9_ProxyBeforeTransport ==
    /\ InOrder(<<{"BUILD_PARAMS"}, {"SIGN"}, {"PICK_PROXY"}, {"SELECT_TRANSPORT"},
                 {"SEND"}, {"NORMALIZE"}, {"RETURN", "RAISE"}>>)
    /\ Needs

C9_Witness ==
    /\ pc = "done"
    /\ steps = <<"BUILD_PARAMS", "SIGN", "PICK_PROXY", "SELECT_TRANSPORT", "SEND",
                 "NORMALIZE", "RETURN">>

ConfiguredPool == PoolOf(Config)

HasTruthyEntry == \E i \in DOMAIN ConfiguredPool : ConfiguredPool[i] # ""

OnlyFalsyEntries == ConfiguredPool # <<>> /\ ~HasTruthyEntry

PastPicking == pc \in {"SELECT_TRANSPORT", "SEND", "NORMALIZE", "done"}

\* C10: with no pool or an empty pool no proxy is used and the request goes
\* on; with a truthy entry in the pool picking ends, under a fair choice, and
\* the proxy used is a truthy entry of the pool; with only falsy entries
\* picking never ends and nothing is sent.
C10_ProxyPicking ==
    /\ [](PastPicking =>
            IF ConfiguredPool = <<>> THEN proxy = None
            ELSE \E i \in DOMAIN ConfiguredPool :
                    /\ ConfiguredPool[i] # ""
                    /\ proxy = ProxyDict(ConfiguredPool[i]))
    /\ ((pc = "PICK_PROXY" /\ (ConfiguredPool = <<>> \/ HasTruthyEntry))
            ~> PastPicking)
    /\ [][(pc = "PICK_PROXY" /\ OnlyFalsyEntries) => pc' = "PICK_PROXY"]_vars
    /\ [](OnlyFalsyEntries => (sends = 0 /\ ~PastPicking))

C10_Witness ==
    /\ pc = "SELECT_TRANSPORT"
    /\ ConfiguredPool = <<"", "http://p1">>
    /\ rand_proxy = Str("http://p1")
    /\ proxy = ProxyDict("http://p1")

====
